---- MODULE Spec2Model ----
(***************************************************************************)
(* State-machine model of the task list component App of src/src/App.tsx.  *)
(* The file holds three variants of the component (lines 1-462, 463-727,   *)
(* 728-1109).  The handlers are the same text in all three; the variants   *)
(* differ in the fields of a Todo, in the default filter, in the sorting   *)
(* of the displayed list and in which controls exist.                      *)
(*                                                                         *)
(* Encoding.  A string is a sequence of characters, so that trim() is      *)
(* computed and not assumed.  crypto.randomUUID() never returns a value    *)
(* twice and ids are only compared for equality, so the n-th id generated  *)
(* in this session is represented by the number n.  Date.now() is a clock  *)
(* that does not go back.  A Todo is a record; the variant without         *)
(* createdAt carries NoTime.                                               *)
(* Every handler is bound to the latest render, so it reads the current    *)
(* state; a handler together with the re-render and the effects it causes  *)
(* is one step.  toggleTodo and deleteTodo take any id; startEditing takes *)
(* a todo of the displayed list, as its call sites do.                     *)
(* The mount is a sequence of steps: the load effect, the first run of the  *)
(* save effect, the first run of the theme effect, and the re-render with  *)
(* the values the load effect has queued.  An exception that nothing       *)
(* catches unmounts the component (phase "crashed").  atStart records what *)
(* the storage held at the mount; prefersDark is the colour scheme of the  *)
(* system, which window.matchMedia reports.                                *)
(***************************************************************************)
EXTENDS Integers, Sequences, FiniteSets, TLC

VARIABLES variant, phase, queued, todos, newTodo, filter, editingId,
          editText, storedTodos, nextId, now,
          theme, storedTheme, prefersDark, atStart

vars == <<variant, phase, queued, todos, newTodo, filter, editingId,
          editText, storedTodos, nextId, now,
          theme, storedTheme, prefersDark, atStart>>

\* ---------------------------------------------------------------- bounds
MaxTodos == 2
MaxIds == 2

\* ------------------------------------------------------------- constants
NoId == 0
NoTime == 0

Variants == {1, 2, 3}
FilterType == {"all", "active", "completed"}

\* the values typed into the two text inputs: empty, blank, padded on both
\* sides, and plain
Texts == {<<>>, <<" ">>, <<" ", "a", " ">>, <<"b">>}

\* ------------------------------------------------------ String.prototype.trim
RECURSIVE trimStart(_)
trimStart(s) ==
  IF s # <<>> /\ Head(s) = " " THEN trimStart(Tail(s)) ELSE s

RECURSIVE trimEnd(_)
trimEnd(s) ==
  IF s # <<>> /\ s[Len(s)] = " " THEN trimEnd(SubSeq(s, 1, Len(s) - 1)) ELSE s

\* mutant: the text is taken as typed
trimNothing(s) == s

\* mutant: only the leading blanks are removed
trimStartOnly(s) == trimStart(s)

trim(s) == trimEnd(trimStart(s))

\* ---------------------------------------------------------- variants
hasCreatedAt(v) == v \in {1, 3}
hasSort(v) == v = 1
hasCancel(v) == v \in {1, 2}
hasClearCompleted(v) == v \in {1, 2}
defaultFilter(v) == IF v = 3 THEN "active" ELSE "all"
hasTheme(v) == v \in {1, 3}
hasMatchMedia(v) == v = 1

\* localStorage.getItem gives null for a missing key; null and "" are both
\* falsy where the load effect tests the value, and both are written ""
NoTheme == ""
defaultTheme(v) == IF v = 1 THEN "light" ELSE IF v = 3 THEN "dark" ELSE NoTheme

idsOf(ts) == {ts[i].id : i \in DOMAIN ts}

\* ------------------------------------------------------ JSON (key "todos")
\* A JSON text is the list of its objects, each the list of its
\* <<key, value>> members in property order; an absent key is kind "absent".
Absent == [kind |-> "absent", items |-> <<>>]

stringifyTodo(t, v) ==
  IF hasCreatedAt(v)
  THEN << <<"id", t.id>>, <<"text", t.text>>, <<"completed", t.completed>>,
          <<"createdAt", t.createdAt>> >>
  ELSE << <<"id", t.id>>, <<"text", t.text>>, <<"completed", t.completed>> >>

JSONstringify(ts, v) ==
  [kind |-> "json", items |-> [i \in DOMAIN ts |-> stringifyTodo(ts[i], v)]]

hasMember(obj, k) == \E i \in DOMAIN obj : obj[i][1] = k
member(obj, k) == obj[CHOOSE i \in DOMAIN obj : obj[i][1] = k][2]

parseTodo(obj) ==
  [id |-> member(obj, "id"), text |-> member(obj, "text"),
   completed |-> member(obj, "completed"),
   createdAt |-> IF hasMember(obj, "createdAt") THEN member(obj, "createdAt")
                 ELSE NoTime]

JSONparse(stored) == [i \in DOMAIN stored.items |-> parseTodo(stored.items[i])]

\* ------------------------------------------------- the derived display list
\* mutant: the completed filter repeats the test of the active filter
matchesFilterCopied(t, f) ==
  IF f = "active" THEN ~t.completed
  ELSE IF f = "completed" THEN ~t.completed
  ELSE TRUE

matchesFilter(t, f) ==
  IF f = "active" THEN ~t.completed
  ELSE IF f = "completed" THEN t.completed
  ELSE TRUE

\* mutant: oldest first
compareTodosOldestFirst(a, b) ==
  IF a.completed # b.completed
  THEN (IF a.completed THEN 1 ELSE -1)
  ELSE a.createdAt - b.createdAt

\* the comparator of lines 138-144: negative, zero or positive
compareTodos(a, b) ==
  IF a.completed # b.completed
  THEN (IF a.completed THEN 1 ELSE -1)
  ELSE b.createdAt - a.createdAt

\* Array.prototype.sort is stable: an element goes behind every element
\* that does not compare greater than it
insertSorted(sorted, e) ==
  LET k == Cardinality({i \in DOMAIN sorted : compareTodos(sorted[i], e) <= 0})
  IN  SubSeq(sorted, 1, k) \o <<e>> \o SubSeq(sorted, k + 1, Len(sorted))

RECURSIVE sortTodos(_)
sortTodos(ts) ==
  IF ts = <<>> THEN <<>>
  ELSE insertSorted(sortTodos(SubSeq(ts, 1, Len(ts) - 1)), ts[Len(ts)])

filteredTodos(ts, f, v) ==
  LET kept == SelectSeq(ts, LAMBDA t : matchesFilter(t, f))
  IN  IF hasSort(v) THEN sortTodos(kept) ELSE kept

\* mutant: the sort works on the state array itself
RenderSortsInPlace(ts, f, v) ==
  [todos |-> IF hasSort(v) THEN sortTodos(ts) ELSE ts,
   filteredTodos |-> filteredTodos(ts, f, v)]

\* One render: filter() copies, so the in-place sort works on the copy and
\* the state array is what it was.
Render(ts, f, v) == [todos |-> ts, filteredTodos |-> filteredTodos(ts, f, v)]

activeTodoCount(ts) == Len(SelectSeq(ts, LAMBDA t : ~t.completed))
completedTodoCount(ts) == Len(SelectSeq(ts, LAMBDA t : t.completed))

\* ------------------------------------------------ the values the handlers set
\* mutant: the creation time serves as id
newTodoItemTimeId(id, text, t, v) ==
  [id |-> t, text |-> trim(text), completed |-> FALSE,
   createdAt |-> IF hasCreatedAt(v) THEN t ELSE NoTime]

newTodoItem(id, text, t, v) ==
  [id |-> id, text |-> trim(text), completed |-> FALSE,
   createdAt |-> IF hasCreatedAt(v) THEN t ELSE NoTime]

\* mutant: the new item is put in front
addedTodosInFront(ts, item) == <<item>> \o ts

\* mutant: the handler keeps the collection of the first render
addedTodosFirstRender(ts, item) == <<item>>

addedTodos(ts, item) == ts \o <<item>>

\* mutant: the matching task is marked completed instead of flipped
toggledTodosMarkDone(ts, id) ==
  [i \in DOMAIN ts |->
     IF ts[i].id = id THEN [ts[i] EXCEPT !.completed = TRUE] ELSE ts[i]]

toggledTodos(ts, id) ==
  [i \in DOMAIN ts |->
     IF ts[i].id = id THEN [ts[i] EXCEPT !.completed = ~ts[i].completed]
     ELSE ts[i]]

\* mutant: the tasks with the id are the ones kept
deletedTodosKeepMatch(ts, id) == SelectSeq(ts, LAMBDA t : t.id = id)

\* mutant: splice at the index found, which is -1 for an id that is not
\* there, so the last task goes
deletedTodosSplice(ts, id) ==
  IF id \in idsOf(ts) THEN SelectSeq(ts, LAMBDA t : t.id # id)
  ELSE SubSeq(ts, 1, Len(ts) - 1)

deletedTodos(ts, id) == SelectSeq(ts, LAMBDA t : t.id # id)

\* mutant: the edited task is rebuilt and loses its completed flag
editedTodosRebuilt(ts, id, text) ==
  [i \in DOMAIN ts |->
     IF ts[i].id = id
     THEN [id |-> ts[i].id, text |-> trim(text), completed |-> FALSE,
           createdAt |-> ts[i].createdAt]
     ELSE ts[i]]

editedTodos(ts, id, text) ==
  [i \in DOMAIN ts |->
     IF ts[i].id = id THEN [ts[i] EXCEPT !.text = trim(text)] ELSE ts[i]]

\* mutant: the completed tasks are the ones kept
clearedTodosKeepCompleted(ts) == SelectSeq(ts, LAMBDA t : t.completed)

clearedTodos(ts) == SelectSeq(ts, LAMBDA t : ~t.completed)

\* ------------------------------------------------------------ initial state
\* what an earlier session of the same variant may have left under "todos"
sampleTodo(id, text, completed, t, v) ==
  [id |-> id, text |-> text, completed |-> completed,
   createdAt |-> IF hasCreatedAt(v) THEN t ELSE NoTime]

\* ids 11, 12, 13 were generated by the earlier session, at times 1, 1, 2
SampleTodos(v) ==
  <<sampleTodo(11, <<"a">>, TRUE, 1, v),
    sampleTodo(12, <<"b">>, FALSE, 1, v),
    sampleTodo(13, <<"a">>, FALSE, 2, v)>>

\* a text JSON.parse rejects, and a JSON text whose value is not an array
\* (an object, a number, a string, null)
Malformed == [kind |-> "malformed", items |-> <<>>]
NotArray == [kind |-> "notarray", items |-> <<>>]

StoredSamples(v) ==
  {Absent, JSONstringify(<<>>, v), JSONstringify(SampleTodos(v), v),
   Malformed, NotArray}

\* what may be found under "theme": nothing, the two themes, another text
StoredThemes == {NoTheme, "light", "dark", "blue"}

\* the ids this session generates, and the ids of the earlier session
Ids == 1..MaxIds \cup idsOf(SampleTodos(1))

\* the state updates the load effect has queued for the next render
NoQueued == [set |-> FALSE, todos |-> <<>>, isArray |-> TRUE, theme |-> NoTheme]

\* the state of the first render, before any effect has run; atStart keeps
\* what the storage held at that time
InitState ==
  /\ variant \in Variants
  /\ phase = "mounting"
  /\ queued = NoQueued
  /\ todos = <<>>
  /\ newTodo = <<>>
  /\ filter = defaultFilter(variant)
  /\ editingId = NoId
  /\ editText = <<>>
  /\ storedTodos \in StoredSamples(variant)
  /\ nextId = 1
  /\ now = 2
  /\ theme = defaultTheme(variant)
  /\ atStart = [todos |-> storedTodos, theme |-> storedTheme]

\* a browser with a light colour scheme and nothing under "theme"
Init ==
  /\ storedTheme = NoTheme
  /\ prefersDark = FALSE
  /\ InitState

\* any colour scheme and anything under "theme"
InitTheme ==
  /\ storedTheme \in StoredThemes
  /\ prefersDark \in BOOLEAN
  /\ InitState

\* --------------------------------------------------------------- mounting
\* mutant: the stored theme is not read
loadedThemeIgnoresStored ==
  IF hasMatchMedia(variant) /\ prefersDark THEN "dark" ELSE NoTheme

\* the theme the load effect passes to setTheme, NoTheme if it makes no call
loadedTheme ==
  IF ~hasTheme(variant) THEN NoTheme
  ELSE IF storedTheme # NoTheme THEN storedTheme
  ELSE IF hasMatchMedia(variant) /\ prefersDark THEN "dark"
  ELSE NoTheme

\* mutant: the load effect is declared behind the save effect, so it reads
\* what the save effect has written for the first render
loadEffectAfterSave ==
  /\ phase = "mounting"
  /\ phase' = "loaded"
  /\ queued' = [set |-> TRUE,
                todos |-> JSONparse(JSONstringify(todos, variant)),
                isArray |-> TRUE,
                theme |-> loadedTheme]
  /\ UNCHANGED <<variant, todos, newTodo, filter, editingId, editText,
                 storedTodos, nextId, now, theme, storedTheme, prefersDark,
                 atStart>>

\* first effect: read the keys "todos" and "theme" and queue the state
\* updates.  JSON.parse throws on a malformed text: nothing catches it, the
\* component is unmounted, and the effects behind it may or may not have run.
loadEffect ==
  /\ phase = "mounting"
  /\ IF storedTodos.kind = "malformed"
     THEN /\ phase' = "crashed"
          /\ storedTodos' \in {storedTodos, JSONstringify(todos, variant)}
          /\ UNCHANGED queued
     ELSE /\ phase' = "loaded"
          /\ queued' = [set |-> storedTodos.kind # "absent",
                        todos |-> JSONparse(storedTodos),
                        isArray |-> storedTodos.kind # "notarray",
                        theme |-> loadedTheme]
          /\ UNCHANGED storedTodos
  /\ UNCHANGED <<variant, todos, newTodo, filter, editingId, editText,
                 nextId, now, theme, storedTheme, prefersDark, atStart>>

\* second effect, first run: write the todos of the first render
saveEffect ==
  /\ phase = "loaded"
  /\ storedTodos' = JSONstringify(todos, variant)
  /\ phase' = "saved"
  /\ UNCHANGED <<variant, queued, todos, newTodo, filter, editingId, editText,
                 nextId, now, theme, storedTheme, prefersDark, atStart>>

\* third effect, first run: write the theme of the first render
saveThemeEffect ==
  /\ phase = "saved"
  /\ hasTheme(variant)
  /\ storedTheme' = theme
  /\ phase' = "themed"
  /\ UNCHANGED <<variant, queued, todos, newTodo, filter, editingId, editText,
                 storedTodos, nextId, now, theme, prefersDark, atStart>>

\* mutant: the save effect runs on mount only
CommitNoSave(ts, f) ==
  /\ todos' = Render(ts, f, variant).todos
  /\ UNCHANGED storedTodos

\* a state update of todos: re-render, then the save effect runs again
Commit(ts, f) ==
  /\ todos' = Render(ts, f, variant).todos
  /\ storedTodos' = JSONstringify(Render(ts, f, variant).todos, variant)

\* a re-render that todos is not part of: the save effect does not run
Rerender(f) ==
  /\ todos' = Render(todos, f, variant).todos
  /\ UNCHANGED storedTodos

\* a state update of theme: re-render, then the theme effect runs again
CommitTheme(th) ==
  /\ theme' = th
  /\ storedTheme' = th

\* the re-render after the mount effects: the queued values become the
\* state.  A value that is not an array has no filter method: the render
\* throws and the component is unmounted.
applyQueued ==
  /\ phase = IF hasTheme(variant) THEN "themed" ELSE "saved"
  /\ IF queued.set /\ ~queued.isArray
     THEN /\ phase' = "crashed"
          /\ UNCHANGED <<queued, todos, storedTodos, theme, storedTheme>>
     ELSE /\ phase' = "ready"
          /\ IF queued.set THEN Commit(queued.todos, filter) ELSE Rerender(filter)
          /\ IF queued.theme # NoTheme THEN CommitTheme(queued.theme)
             ELSE UNCHANGED <<theme, storedTheme>>
          /\ queued' = NoQueued
  /\ UNCHANGED <<variant, newTodo, filter, editingId, editText, nextId, now,
                 prefersDark, atStart>>

\* --------------------------------------------------------------- handlers
setNewTodo(value) ==
  /\ phase = "ready"
  /\ newTodo' = value
  /\ Rerender(filter)
  /\ UNCHANGED <<variant, phase, queued, filter, editingId, editText, nextId, now>>
  /\ UNCHANGED <<theme, storedTheme, prefersDark, atStart>>

randomUUID == nextId

\* Date.now() where it is called: the time of the previous call or a later
\* one (createdAt values are only compared with each other)
DateNow == IF hasCreatedAt(variant) THEN {now, now + 1} ELSE {now}

addTodo ==
  /\ phase = "ready"
  /\ IF trim(newTodo) # <<>>
     THEN /\ Len(todos) < MaxTodos
          /\ nextId <= MaxIds
          /\ \E t \in DateNow :
               /\ Commit(addedTodos(todos, newTodoItem(randomUUID, newTodo, t, variant)),
                         filter)
               /\ now' = t
          /\ nextId' = nextId + 1
          /\ newTodo' = <<>>
     ELSE UNCHANGED <<todos, storedTodos, now, nextId, newTodo>>
  /\ UNCHANGED <<variant, phase, queued, filter, editingId, editText>>
  /\ UNCHANGED <<theme, storedTheme, prefersDark, atStart>>

toggleTodo(id) ==
  /\ phase = "ready"
  /\ Commit(toggledTodos(todos, id), filter)
  /\ UNCHANGED <<variant, phase, queued, newTodo, filter, editingId, editText,
                 nextId, now>>
  /\ UNCHANGED <<theme, storedTheme, prefersDark, atStart>>

deleteTodo(id) ==
  /\ phase = "ready"
  /\ Commit(deletedTodos(todos, id), filter)
  /\ UNCHANGED <<variant, phase, queued, newTodo, filter, editingId, editText,
                 nextId, now>>
  /\ UNCHANGED <<theme, storedTheme, prefersDark, atStart>>

\* mutant: opening a session first commits the draft of the open one
startEditingCommitsDraft(todo) ==
  /\ phase = "ready"
  /\ editingId' = todo.id
  /\ editText' = todo.text
  /\ IF editingId # NoId /\ trim(editText) # <<>>
     THEN Commit(editedTodos(todos, editingId, editText), filter)
     ELSE Rerender(filter)
  /\ UNCHANGED <<variant, phase, queued, newTodo, filter, nextId, now,
                 theme, storedTheme, prefersDark, atStart>>

startEditing(todo) ==
  /\ phase = "ready"
  /\ editingId' = todo.id
  /\ editText' = todo.text
  /\ Rerender(filter)
  /\ UNCHANGED <<variant, phase, queued, newTodo, filter, nextId, now>>
  /\ UNCHANGED <<theme, storedTheme, prefersDark, atStart>>

setEditText(value) ==
  /\ phase = "ready"
  /\ editText' = value
  /\ Rerender(filter)
  /\ UNCHANGED <<variant, phase, queued, newTodo, filter, editingId, nextId, now>>
  /\ UNCHANGED <<theme, storedTheme, prefersDark, atStart>>

\* mutant: the draft is committed but the session is left open
saveEditKeepsSession ==
  /\ phase = "ready"
  /\ IF editingId # NoId /\ trim(editText) # <<>>
     THEN Commit(editedTodos(todos, editingId, editText), filter)
     ELSE UNCHANGED <<todos, storedTodos>>
  /\ UNCHANGED <<variant, phase, queued, newTodo, filter, editingId, editText,
                 nextId, now, theme, storedTheme, prefersDark, atStart>>

saveEdit ==
  /\ phase = "ready"
  /\ IF editingId # NoId /\ trim(editText) # <<>>
     THEN /\ Commit(editedTodos(todos, editingId, editText), filter)
          /\ editingId' = NoId
     ELSE UNCHANGED <<todos, storedTodos, editingId>>
  /\ UNCHANGED <<variant, phase, queued, newTodo, filter, editText, nextId, now>>
  /\ UNCHANGED <<theme, storedTheme, prefersDark, atStart>>

cancelEdit ==
  /\ phase = "ready"
  /\ hasCancel(variant)
  /\ editingId' = NoId
  /\ Rerender(filter)
  /\ UNCHANGED <<variant, phase, queued, newTodo, filter, editText, nextId, now>>
  /\ UNCHANGED <<theme, storedTheme, prefersDark, atStart>>

setFilter(filterType) ==
  /\ phase = "ready"
  /\ filter' = filterType
  /\ Rerender(filterType)
  /\ UNCHANGED <<variant, phase, queued, newTodo, editingId, editText, nextId, now>>
  /\ UNCHANGED <<theme, storedTheme, prefersDark, atStart>>

\* mutant: the session ends when the task under edit is removed
clearCompletedEndsSession ==
  /\ phase = "ready"
  /\ hasClearCompleted(variant)
  /\ Commit(clearedTodos(todos), filter)
  /\ editingId' = IF editingId \in idsOf(clearedTodos(todos)) THEN editingId
                  ELSE NoId
  /\ UNCHANGED <<variant, phase, queued, newTodo, filter, editText, nextId, now>>
  /\ UNCHANGED <<theme, storedTheme, prefersDark, atStart>>

clearCompleted ==
  /\ phase = "ready"
  /\ hasClearCompleted(variant)
  /\ Commit(clearedTodos(todos), filter)
  /\ UNCHANGED <<variant, phase, queued, newTodo, filter, editingId, editText,
                 nextId, now>>
  /\ UNCHANGED <<theme, storedTheme, prefersDark, atStart>>

toggleTheme ==
  /\ phase = "ready"
  /\ hasTheme(variant)
  /\ CommitTheme(IF theme = "light" THEN "dark" ELSE "light")
  /\ Rerender(filter)
  /\ UNCHANGED <<variant, phase, queued, newTodo, filter, editingId, editText,
                 nextId, now, prefersDark, atStart>>

Next ==
  \/ loadEffect
  \/ saveEffect
  \/ saveThemeEffect
  \/ applyQueued
  \/ \E value \in Texts : setNewTodo(value)
  \/ addTodo
  \/ \E id \in Ids : toggleTodo(id)
  \/ \E id \in Ids : deleteTodo(id)
  \/ \E i \in DOMAIN filteredTodos(todos, filter, variant) :
       startEditing(filteredTodos(todos, filter, variant)[i])
  \/ \E value \in Texts : setEditText(value)
  \/ saveEdit
  \/ cancelEdit
  \/ \E filterType \in FilterType : setFilter(filterType)
  \/ clearCompleted

\* the task list of the component, in a browser with a light colour scheme
\* and nothing under "theme"
Spec == Init /\ [][Next]_vars

\* the whole component, the task list and the theme button, on a first visit
NextAll ==
  \/ Next
  \/ toggleTheme

\* a first visit: nothing under "todos"
InitFirstVisit ==
  /\ Init
  /\ storedTodos = Absent

SpecAll == InitFirstVisit /\ [][NextAll]_vars

\* the theme, under any colour scheme and anything under "theme", in
\* sessions in which tasks are toggled and deleted
NextTheme ==
  \/ loadEffect
  \/ saveEffect
  \/ saveThemeEffect
  \/ applyQueued
  \/ toggleTheme
  \/ \E id \in Ids : toggleTodo(id)
  \/ \E id \in Ids : deleteTodo(id)
  \/ \E filterType \in FilterType : setFilter(filterType)

SpecTheme == InitTheme /\ [][NextTheme]_vars

\* sessions in which no task is edited
NextStore ==
  \/ loadEffect
  \/ saveEffect
  \/ saveThemeEffect
  \/ applyQueued
  \/ \E value \in Texts : setNewTodo(value)
  \/ addTodo
  \/ \E id \in Ids : toggleTodo(id)
  \/ \E id \in Ids : deleteTodo(id)
  \/ \E filterType \in FilterType : setFilter(filterType)
  \/ clearCompleted

SpecStore == Init /\ [][NextStore]_vars

\* sessions in which no task is added
NextEdit ==
  \/ loadEffect
  \/ saveEffect
  \/ saveThemeEffect
  \/ applyQueued
  \/ \E id \in Ids : toggleTodo(id)
  \/ \E id \in Ids : deleteTodo(id)
  \/ \E i \in DOMAIN filteredTodos(todos, filter, variant) :
       startEditing(filteredTodos(todos, filter, variant)[i])
  \/ \E value \in Texts : setEditText(value)
  \/ saveEdit
  \/ cancelEdit
  \/ \E filterType \in FilterType : setFilter(filterType)
  \/ clearCompleted

SpecEdit == Init /\ [][NextEdit]_vars

TypeOK ==
  /\ variant \in Variants
  /\ phase \in {"mounting", "loaded", "saved", "themed", "ready", "crashed"}
  /\ theme \in StoredThemes
  /\ storedTheme \in StoredThemes
  /\ prefersDark \in BOOLEAN
  /\ filter \in FilterType
  /\ newTodo \in Texts
  /\ editText \in Seq({" ", "a", "b"})
  /\ editingId \in Nat
  /\ nextId \in Nat
  /\ now \in Nat

\* ------------------------------------------------------ stating the claims
\* r is s without its leading and trailing blanks, said without trim()
blanks(n) == [i \in 1..n |-> " "]
IsTrimOf(r, s) ==
  /\ \E i \in 0..Len(s) : \E j \in 0..Len(s) : s = blanks(i) \o r \o blanks(j)
  /\ r # <<>> => (r[1] # " " /\ r[Len(r)] # " ")
IsBlank(s) == \A i \in DOMAIN s : s[i] = " "

\* C1: when the text typed into the new-task input has a non-blank character,
\* addTodo appends exactly one task at the end: the count grows by one, the
\* new task carries the input without its leading and trailing blanks, is
\* not completed, has an id no existing task has, and the tasks that were
\* there are unchanged and in the same order.
C1_AddAppendsOne ==
  [][(addTodo /\ ~IsBlank(newTodo)) =>
       /\ Len(todos') = Len(todos) + 1
       /\ IsTrimOf(todos'[Len(todos')].text, newTodo)
       /\ todos'[Len(todos')].completed = FALSE
       /\ todos'[Len(todos')].id \notin idsOf(todos)
       /\ SubSeq(todos', 1, Len(todos)) = todos]_vars

\* a padded text is about to be added behind an existing task
C1_Witness ==
  /\ newTodo = <<" ", "a", " ">>
  /\ todos # <<>>
  /\ ENABLED addTodo

\* C2: blank text is rejected without mutation: addTodo with an empty or
\* blank input, and saveEdit with an empty or blank draft, leave every task
\* of the collection as it was.
C2_BlankRejected ==
  [][((addTodo /\ IsBlank(newTodo)) \/ (saveEdit /\ IsBlank(editText))) =>
       todos' = todos]_vars

\* a blank input and a blank draft for a task of the collection are waiting
C2_Witness ==
  /\ newTodo = <<" ">>
  /\ editText = <<" ">>
  /\ editingId \in idsOf(todos)
  /\ Len(todos) >= 2
  /\ ENABLED addTodo
  /\ ENABLED saveEdit

\* C3: toggleTodo(id) for an id of the collection flips the completed flag
\* of the matching task and changes nothing else, and toggling the same id
\* once more gives back the collection as it was before the first toggle.
C3_ToggleInvolution ==
  [][\A id \in Ids :
       (toggleTodo(id) /\ id \in idsOf(todos)) =>
         /\ Len(todos') = Len(todos)
         /\ \A i \in DOMAIN todos :
              /\ todos'[i].id = todos[i].id
              /\ todos'[i].text = todos[i].text
              /\ todos'[i].createdAt = todos[i].createdAt
              /\ todos'[i].completed =
                   (IF todos[i].id = id THEN ~todos[i].completed
                    ELSE todos[i].completed)
         /\ toggledTodos(todos', id) = todos]_vars

\* two tasks were added to the empty collection and the first was toggled
C3_Witness ==
  /\ nextId = 3
  /\ Len(todos) = 2
  /\ todos[1].id = 1
  /\ todos[1].completed
  /\ ~todos[2].completed
  /\ \E id \in idsOf(todos) : ENABLED toggleTodo(id)

\* C4: saveEdit with a non-blank draft gives the task whose id is editingId
\* the draft without its leading and trailing blanks as text and changes
\* nothing else: that task keeps its id, its completed flag as it is at the
\* moment of the save, its createdAt and its position, and every other task
\* is unchanged.
C4_SaveEditFrame ==
  [][(saveEdit /\ editingId # NoId /\ ~IsBlank(editText)) =>
       /\ Len(todos') = Len(todos)
       /\ \A i \in DOMAIN todos :
            IF todos[i].id = editingId
            THEN /\ todos'[i].id = todos[i].id
                 /\ todos'[i].completed = todos[i].completed
                 /\ todos'[i].createdAt = todos[i].createdAt
                 /\ IsTrimOf(todos'[i].text, editText)
            ELSE todos'[i] = todos[i]]_vars

\* a padded draft for a completed task that is neither first nor last, with
\* a text other than the draft
C4_Witness ==
  /\ editText = <<" ", "a", " ">>
  /\ Len(todos) = 3
  /\ todos[2].id = editingId
  /\ todos[2].completed
  /\ todos[2].text = <<"b">>
  /\ ENABLED saveEdit

\* C5: deleteTodo(id) for an id of the collection makes the collection one
\* shorter, leaves no task with that id, and leaves the other tasks
\* unchanged in their order.
C5_DeleteOne ==
  [][\A id \in Ids :
       (deleteTodo(id) /\ id \in idsOf(todos)) =>
         /\ Len(todos') = Len(todos) - 1
         /\ id \notin idsOf(todos')
         /\ \E k \in DOMAIN todos :
              /\ todos[k].id = id
              /\ todos' = SubSeq(todos, 1, k - 1) \o SubSeq(todos, k + 1, Len(todos))]_vars

\* in the variant without Clear completed, the middle one of three loaded
\* tasks is gone and the outer two are left
C5_Witness ==
  /\ variant = 3
  /\ Len(todos) = 2
  /\ todos[1].id = 11
  /\ todos[2].id = 13
  /\ \E id \in idsOf(todos) : ENABLED deleteTodo(id)

\* C6: Clear completed removes exactly the completed tasks: afterwards no
\* task is completed, and the tasks that were not completed are all still
\* there, as they were and in the order they had.
Range(seq) == {seq[i] : i \in DOMAIN seq}

C6_ClearCompleted ==
  [][clearCompleted =>
       /\ \A i \in DOMAIN todos' : ~todos'[i].completed
       /\ Len(todos') = Cardinality({i \in DOMAIN todos : ~todos[i].completed})
       /\ \A i \in DOMAIN todos : ~todos[i].completed => todos[i] \in Range(todos')
       /\ \A i \in DOMAIN todos : \A j \in DOMAIN todos :
            (i < j /\ ~todos[i].completed /\ ~todos[j].completed) =>
              \E k \in DOMAIN todos' : \E l \in DOMAIN todos' :
                k < l /\ todos'[k] = todos[i] /\ todos'[l] = todos[j]]_vars

\* a completed task stands between two tasks that are not completed
C6_Witness ==
  /\ Len(todos) = 3
  /\ ~todos[1].completed
  /\ todos[2].completed
  /\ ~todos[3].completed
  /\ ENABLED clearCompleted

\* C7: a mutation addressed to an id that no task has changes nothing:
\* toggleTodo and deleteTodo with such an id, and saveEdit while editingId
\* is the id of no task, leave the collection as it was.
C7_AbsentIdNoOp ==
  [][(\/ \E id \in Ids \ idsOf(todos) : toggleTodo(id) \/ deleteTodo(id)
      \/ saveEdit /\ editingId \notin idsOf(todos)) =>
       todos' = todos]_vars

\* the task under edit is gone, others are left, and the draft is not blank
C7_Witness ==
  /\ editingId # NoId
  /\ editingId \notin idsOf(todos)
  /\ ~IsBlank(editText)
  /\ Len(todos) >= 2
  /\ ENABLED saveEdit
  /\ ENABLED deleteTodo(editingId)
  /\ ENABLED toggleTodo(editingId)

\* C8: in every state the active view and the completed view partition the
\* all view: as sets of tasks their union is the all view, which holds
\* every task of the collection, and they have no task in common.
C8_ViewsPartition ==
  LET all == Range(filteredTodos(todos, "all", variant))
      active == Range(filteredTodos(todos, "active", variant))
      completed == Range(filteredTodos(todos, "completed", variant))
  IN  /\ active \cup completed = all
      /\ all = Range(todos)
      /\ active \cap completed = {}

\* both views are non-empty
C8_Witness ==
  /\ phase = "ready"
  /\ filteredTodos(todos, "active", variant) # <<>>
  /\ filteredTodos(todos, "completed", variant) # <<>>
  /\ Len(todos) = 3

\* C9: in the sorting variant, under every filter, the displayed list has
\* every task that is not completed before every completed task, and tasks
\* of the same completion status in non-increasing createdAt order; and
\* no step, each of which recomputes the list, changes the order that two
\* tasks have in the stored collection.
SortedView(view) ==
  \A i \in DOMAIN view : \A j \in DOMAIN view :
    i < j =>
      /\ view[i].completed => view[j].completed
      /\ view[i].completed = view[j].completed =>
           view[i].createdAt >= view[j].createdAt

OrderKept ==
  \A i \in DOMAIN todos : \A j \in DOMAIN todos :
    \A k \in DOMAIN todos' : \A l \in DOMAIN todos' :
      (i < j /\ todos'[k].id = todos[i].id /\ todos'[l].id = todos[j].id) => k < l

C9_SortedView ==
  /\ [](hasSort(variant) =>
          \A f \in FilterType : SortedView(filteredTodos(todos, f, variant)))
  /\ [][hasSort(variant) => OrderKept]_vars

\* the displayed list is the stored collection in another order
C9_Witness ==
  /\ hasSort(variant)
  /\ Len(todos) >= 2
  /\ filter = "all"
  /\ todos[1].createdAt < todos[2].createdAt
  /\ todos[1].completed = todos[2].completed
  /\ filteredTodos(todos, filter, variant) # todos

\* C10: in every state no two tasks of the collection have the same id.
C10_UniqueIds ==
  \A i \in DOMAIN todos : \A j \in DOMAIN todos :
    i # j => todos[i].id # todos[j].id

\* two tasks with different texts were added in this session
C10_Witness ==
  /\ Len(todos) = 2
  /\ idsOf(todos) = {1, 2}
  /\ todos[1].text # todos[2].text
  /\ storedTodos = JSONstringify(todos, variant)

\* C11: in every reachable state the text of every task is non-empty and
\* is its own trimmed form: it neither starts nor ends with a blank.
C11_TextNeverEmpty ==
  \A i \in DOMAIN todos :
    /\ todos[i].text # <<>>
    /\ IsTrimOf(todos[i].text, todos[i].text)

\* a task has been added from a padded input and another one, stored as
\* "b", has been edited with a padded draft: both hold the text "a"
C11_Witness ==
  /\ phase = "ready"
  /\ \E i \in DOMAIN todos : todos[i].id = 1 /\ todos[i].text = <<"a">>
  /\ \E i \in DOMAIN todos : todos[i].id = 12 /\ todos[i].text = <<"a">>
  /\ editingId = NoId
  /\ editText = <<" ", "a", " ">>

\* C12: once startup is over, the value under "todos" is the serialization
\* of the current collection after every add, toggle, edit, delete and clear;
\* changing the filter changes neither the collection nor the stored value.
C12_PersistenceFollows ==
  /\ [](phase = "ready" => storedTodos = JSONstringify(todos, variant))
  /\ [][(\E filterType \in FilterType : setFilter(filterType)) =>
          (todos' = todos /\ storedTodos' = storedTodos)]_vars

\* mutations have changed a non-empty collection and the filter has been
\* changed: the stored value is no longer the one found at startup
C12_Witness ==
  /\ phase = "ready"
  /\ todos # <<>>
  /\ atStart.todos.kind = "json"
  /\ JSONparse(atStart.todos) # todos
  /\ 1 \in idsOf(todos)
  /\ filter # defaultFilter(variant)

\* C13: if "todos" holds the serialization of a valid collection T when the
\* component mounts, the load effect runs once, and the step that ends
\* startup leaves T as the collection and the serialization of T in storage;
\* the save of the empty first render in between loses nothing.
C13_ReloadRoundTrip ==
  /\ [][phase' = "mounting" => phase = "mounting"]_vars
  /\ [][\A T \in {<<>>, SampleTodos(variant)} :
          (atStart.todos = JSONstringify(T, variant)) =>
            /\ phase' # "crashed"
            /\ loadEffect => phase' = "loaded"
            /\ applyQueued =>
                 (todos' = T /\ storedTodos' = JSONstringify(T, variant))]_vars

\* startup has ended with the three stored tasks as the collection, after
\* the first save had emptied the storage
C13_Witness ==
  /\ phase = "ready"
  /\ atStart.todos = JSONstringify(SampleTodos(variant), variant)
  /\ todos = SampleTodos(variant)
  /\ storedTodos = atStart.todos
  /\ nextId = 1

\* C14: for a stored "todos" value that is missing, is not parseable or is
\* not an array, startup fails in no step and ends with the empty collection.
C14_MalformedYieldsEmpty ==
  [][(atStart.todos.kind \in {"absent", "malformed", "notarray"}) =>
       /\ phase' # "crashed"
       /\ applyQueued => (phase' = "ready" /\ todos' = <<>>)]_vars

\* C15 as stated: from every open edit session, whatever the draft, save
\* returns the session to idle.
C15_SaveAlwaysIdle ==
  (phase = "ready" /\ editingId # NoId) =>
    ~ENABLED (saveEdit /\ editingId' # NoId)

\* C15, amended: from an open edit session whose draft is not blank, save
\* gives the task under edit the trimmed draft and returns the session to
\* idle; with a blank draft save changes nothing and the session stays open.
C15_SaveNonBlankIdle ==
  /\ [][(saveEdit /\ editingId # NoId /\ ~IsBlank(editText)) =>
          /\ editingId' = NoId
          /\ Len(todos') = Len(todos)
          /\ \A i \in DOMAIN todos :
               todos[i].id = editingId => IsTrimOf(todos'[i].text, editText)]_vars
  /\ []((phase = "ready" /\ editingId # NoId /\ IsBlank(editText)) =>
          /\ ENABLED saveEdit
          /\ ~ENABLED (saveEdit /\ editingId' # editingId)
          /\ ~ENABLED (saveEdit /\ editText' # editText)
          /\ ~ENABLED (saveEdit /\ todos' # todos)
          /\ ~ENABLED (saveEdit /\ storedTodos' # storedTodos))

\* a session is open on the stored task "b" with the padded draft " a ",
\* and save is about to act
C15_Witness ==
  /\ phase = "ready"
  /\ editingId = 12
  /\ editText = <<" ", "a", " ">>
  /\ \E i \in DOMAIN todos : todos[i].id = 12 /\ todos[i].text = <<"b">>
  /\ ENABLED saveEdit

\* C16: the draft reaches the collection by save only.  At most one task is
\* under edit; opening a session, typing into the draft, cancelling, and
\* opening a session on a second task leave the collection and the stored
\* value as they are; opening a session, also while another one is open,
\* makes it (id of the task, current text of the task); cancel ends it.
C16_DraftNotCommitted ==
  /\ [](Cardinality({i \in DOMAIN todos : todos[i].id = editingId}) <= 1)
  /\ [][((\E i \in DOMAIN filteredTodos(todos, filter, variant) :
            startEditing(filteredTodos(todos, filter, variant)[i]))
         \/ (\E value \in Texts : setEditText(value))
         \/ cancelEdit) =>
          (todos' = todos /\ storedTodos' = storedTodos)]_vars
  /\ [][\A i \in DOMAIN todos :
          startEditing(todos[i]) =>
            (editingId' = todos[i].id /\ editText' = todos'[i].text)]_vars
  /\ [][cancelEdit => editingId' = NoId]_vars

\* a session is open on one task with a draft that differs from its text,
\* and a second task is displayed on which a session can be opened
C16_Witness ==
  /\ phase = "ready"
  /\ editingId = 12
  /\ editText = <<" ", "a", " ">>
  /\ \E i \in DOMAIN todos : todos[i].id = 12 /\ todos[i].text = <<"b">>
  /\ \E i \in DOMAIN filteredTodos(todos, filter, variant) :
       /\ filteredTodos(todos, filter, variant)[i].id = 13
       /\ ENABLED startEditing(filteredTodos(todos, filter, variant)[i])

\* C17 as stated: in every variant with a theme, startup ends with the
\* system preference as the theme when none is stored and with the stored
\* theme otherwise, and from then on the stored theme is the theme in memory.
C17_ThemeFromSystem ==
  /\ [][(applyQueued /\ phase' = "ready" /\ hasTheme(variant)) =>
          theme' = IF atStart.theme # NoTheme THEN atStart.theme
                   ELSE IF prefersDark THEN "dark" ELSE "light"]_vars
  /\ []((phase = "ready" /\ hasTheme(variant)) => storedTheme = theme)

\* C17, amended: with no theme stored, startup ends with the system
\* preference in the variant that asks for it (variant 1) and with the
\* default "dark" in the variant that does not (variant 3); with a theme
\* stored it ends with the stored one; after startup and after every toggle
\* the stored theme is the theme in memory.
C17_ThemeAfterStartup ==
  /\ [][(applyQueued /\ phase' = "ready" /\ hasTheme(variant)) =>
          theme' = IF atStart.theme # NoTheme THEN atStart.theme
                   ELSE IF variant = 1 /\ prefersDark THEN "dark"
                   ELSE IF variant = 1 THEN "light"
                   ELSE "dark"]_vars
  /\ [][toggleTheme => (theme' # theme /\ theme' \in {"light", "dark"})]_vars
  /\ []((phase = "ready" /\ hasTheme(variant)) => storedTheme = theme)

\* variant 1 has started under a dark colour scheme with nothing stored, and
\* the theme has since been toggled to "light"
C17_Witness ==
  /\ phase = "ready"
  /\ variant = 1
  /\ prefersDark
  /\ atStart.theme = NoTheme
  /\ theme = "light"
  /\ storedTheme = "light"

\* C18: a stored theme that is neither "light" nor "dark" counts as no data:
\* the theme in memory is always one of the two, and so is the stored theme
\* once startup is over.
C18_ThemeLiteral ==
  hasTheme(variant) =>
    /\ theme \in {"light", "dark"}
    /\ phase = "ready" => storedTheme \in {"light", "dark"}

\* C19: no step of the whole component (add, toggle, edit, delete, clear,
\* filter, theme) changes the createdAt of a task that keeps its id or the
\* order of two tasks that stay, and a task that is new stands behind the
\* ones that stay; so the collection is always in creation order: creation
\* times do not decrease along it and the ids of this session increase.
C19_CreationOrder ==
  /\ [][/\ \A i \in DOMAIN todos : \A k \in DOMAIN todos' :
             todos'[k].id = todos[i].id => todos'[k].createdAt = todos[i].createdAt
        /\ OrderKept
        /\ \A k \in DOMAIN todos' : \A l \in DOMAIN todos' :
             (todos'[k].id \in idsOf(todos) /\ todos'[l].id \notin idsOf(todos))
               => k < l]_vars
  /\ [](\A i \in DOMAIN todos : \A j \in DOMAIN todos :
          i < j =>
            /\ todos[i].createdAt <= todos[j].createdAt
            /\ todos[j].id \in 1..MaxIds =>
                 (todos[i].id \notin 1..MaxIds \/ todos[i].id < todos[j].id))

\* the second task of this session was created later than the first, the
\* first has since been completed and edited, the filter and the theme have
\* been changed, and the two still stand in the order of their creation
C19_Witness ==
  /\ phase = "ready"
  /\ variant = 1
  /\ Len(todos) = 2
  /\ todos[1].id = 1 /\ todos[1].completed /\ todos[1].text = <<"b">>
  /\ todos[2].id = 2 /\ todos[2].createdAt > todos[1].createdAt
  /\ editText = <<"b">>
  /\ filter = "completed"
  /\ theme = "dark"

\* C20: after startup every step that changes the collection is one
\* mutation of the collection the step before has left (one task appended,
\* or one task's completed flag flipped, or one task's text replaced, or one
\* task removed, or the completed tasks removed) with everything else as it
\* was, and the same step leaves the serialization of the result in storage.
removedAt(ts, i) == SubSeq(ts, 1, i - 1) \o SubSeq(ts, i + 1, Len(ts))

OneMutation(old, new) ==
  \/ /\ Len(new) = Len(old) + 1
     /\ SubSeq(new, 1, Len(old)) = old
  \/ \E i \in DOMAIN old : new = [old EXCEPT ![i].completed = ~old[i].completed]
  \/ /\ Len(new) = Len(old)
     /\ \E i \in DOMAIN old : new = [old EXCEPT ![i].text = new[i].text]
  \/ \E i \in DOMAIN old : new = removedAt(old, i)
  \/ LET done == {i \in DOMAIN old : old[i].completed}
     IN  /\ Len(new) = Len(old) - Cardinality(done)
         /\ \A i \in DOMAIN old : i \notin done =>
              new[i - Cardinality({j \in done : j < i})] = old[i]

OnAbsentId == editingId # NoId /\ editingId \notin idsOf(todos)

C21_ClearKeepsSession ==
  /\ [][(clearCompleted /\ \E i \in DOMAIN todos :
                             todos[i].id = editingId /\ todos[i].completed) =>
          /\ editingId' = editingId
          /\ editText' = editText
          /\ editingId \notin idsOf(todos')]_vars
  /\ [][(saveEdit /\ OnAbsentId /\ ~IsBlank(editText)) =>
          /\ editingId' = NoId
          /\ todos' = todos
          /\ storedTodos' = storedTodos]_vars
  /\ [][(OnAbsentId /\
          ((\E i \in DOMAIN filteredTodos(todos, filter, variant) :
              startEditing(filteredTodos(todos, filter, variant)[i]))
           \/ cancelEdit)) =>
          (todos' = todos /\ storedTodos' = storedTodos)]_vars

\* a session with a padded draft is open on the completed stored task, two
\* tasks that are not completed stand beside it, and Clear completed is
\* about to remove the task under edit
C21_Witness ==
  /\ phase = "ready"
  /\ editingId = 11
  /\ editText = <<" ", "a", " ">>
  /\ idsOf(todos) = {11, 12, 13}
  /\ \A i \in DOMAIN todos : todos[i].completed <=> todos[i].id = 11
  /\ ENABLED clearCompleted

====
